---- MODULE Spec2Model ----
(***************************************************************************)
(* Model of the gateway of fluxoria-universe/analytics: the rate limiter   *)
(* (src/middleware/rateLimit.ts), the Redis cache it counts in             *)
(* (services/cache/RedisCache), the JWT service (services/auth/JWTService) *)
(* and the request pipeline of the server (src/index.ts).                  *)
(*                                                                         *)
(* An async handler is modelled as one action per code segment between two *)
(* awaits: the awaited store operation takes effect and the handler runs   *)
(* on until it issues its next store operation.  Date.now() is the         *)
(* variable now, read where the code reads it.                             *)
(***************************************************************************)
EXTENDS Integers, Sequences, FiniteSets, TLC

\* ------------------------------------------------------------------ bounds
MaxReq == 4        \* request slots
MaxLimit == 2      \* largest maxRequests / quotaPerMinute tried
MaxTicks == 2      \* clock advances
MaxInFlight == 2   \* requests that run concurrently
MaxFail == 1       \* store operations that fail

\* ------------------------------------------------------ program constants
WindowMs == 60000      \* RATE_LIMIT_WINDOW_MS default
MsPerSec == 1000       \* ms per second, in Math.ceil(x / 1000), Math.floor(ttl / 1000)
DefaultTTL == 300000   \* RedisCache.defaultTTL

VARIABLES
  now,      \* Date.now(), in ms
  ticks,    \* number of clock advances so far
  config,   \* RateLimitConfig of the mounted middleware, and how it is mounted
  store,    \* the Redis keyspace: key -> [val, exp]
  reqs,     \* per request slot: position in the handler, locals, response
  jwt,      \* the last call of the JWT service: operation, arguments, result
  clients,  \* APIKeyService.clients, in insertion order
  call      \* the last call of the API key service or of the authentication middleware

authVars == <<clients, call>>
vars == <<now, ticks, config, store, reqs, jwt, authVars>>

Req == 1..MaxReq
Limits == 1..MaxLimit
\* how the limiter is mounted: rateLimit(), createTieredRateLimit(),
\* createConditionalRateLimit(skipCondition); "server" is the pipeline of index.ts
Routes == {"plain", "tiered", "conditional"}

\* req.user as the authentication middleware leaves it (absent, or id + quota)
NoUser == [present |-> FALSE, id |-> "", roles |-> {}, quotaPerMinute |-> 0]
Users ==
  {NoUser} \cup {[present |-> TRUE, id |-> "c1", roles |-> {"READ"}, quotaPerMinute |-> q] :
                   q \in {0, MaxLimit}}
IPs == {"ip1"}

\* ------------------------------------------------------------ arithmetic
\* Math.floor(a / b) for b > 0
FloorDiv(a, b) == a \div b
\* Math.ceil(a / b) for b > 0, a of either sign
CeilDiv(a, b) == -((-a) \div b)

\* ---------------------------------------------------------- Redis, cache
Nil == <<"nil">>
\* JSON.stringify of a number, and JSON.parse of a stored string
Serialize(n) == <<"num", n>>
Parsable(s) == Len(s) = 2 /\ s[1] = "num"
Parse(s) == s[2]

Null == [isNull |-> TRUE, num |-> 0]
Value(n) == [isNull |-> FALSE, num |-> n]

\* redis.get: the key's string, nil when absent or expired
RedisGet(s, k, t) == IF k \in DOMAIN s /\ t < s[k].exp THEN s[k].val ELSE Nil

\* redis.setex(key, seconds, value); Redis refuses seconds <= 0
RedisSetexOk(seconds) == seconds > 0
RedisSetex(s, k, seconds, v, t) ==
  [x \in DOMAIN s \cup {k} |-> IF x = k THEN [val |-> v, exp |-> t + seconds * MsPerSec] ELSE s[x]]

\* keys Redis has expired by time t are gone
Purge(s, t) == [x \in {k \in DOMAIN s : t < s[k].exp} |-> s[x]]

\* a stored string that is no JSON (written by another program, or damaged)
Garbage == <<"not json">>

\* mutant: JSON.parse outside the try block
CacheGetParseOutsideTry(s, k, t, fail) ==
  LET raw == RedisGet(s, k, t) IN
  IF fail THEN [value |-> Null, logged |-> TRUE, threw |-> FALSE]
  ELSE IF raw = Nil THEN [value |-> Null, logged |-> FALSE, threw |-> FALSE]
  ELSE IF ~Parsable(raw) THEN [value |-> Null, logged |-> FALSE, threw |-> TRUE]
  ELSE [value |-> Value(Parse(raw)), logged |-> FALSE, threw |-> FALSE]

\* RedisCache.get: any error (store down, unparsable value) is caught, logged and read as
\* null; nothing is thrown to the caller
CacheGet(s, k, t, fail) ==
  LET raw == RedisGet(s, k, t) IN
  IF fail THEN [value |-> Null, logged |-> TRUE, threw |-> FALSE]
  ELSE IF raw = Nil THEN [value |-> Null, logged |-> FALSE, threw |-> FALSE]
  ELSE IF ~Parsable(raw) THEN [value |-> Null, logged |-> TRUE, threw |-> FALSE]
  ELSE [value |-> Value(Parse(raw)), logged |-> FALSE, threw |-> FALSE]

\* RedisCache.set: ttl = options.ttl || defaultTTL, setex(floor(ttl / 1000)); errors are
\* logged and answered with false
CacheSetTtl(ttl) == IF ttl # 0 THEN ttl ELSE DefaultTTL
CacheSet(s, k, n, ttl, t, fail) ==
  LET seconds == FloorDiv(CacheSetTtl(ttl), MsPerSec) IN
  IF fail \/ ~RedisSetexOk(seconds)
  THEN [store |-> s, ok |-> FALSE, logged |-> TRUE]
  ELSE [store |-> RedisSetex(s, k, seconds, Serialize(n), t), ok |-> TRUE, logged |-> FALSE]

\* RedisCache.delete: del of the key, true when a key was removed; an error is logged and
\* answered with false
CacheDelete(s, k, t, fail) ==
  IF fail THEN [store |-> s, ok |-> FALSE, logged |-> TRUE]
  ELSE [store |-> [x \in DOMAIN s \ {k} |-> s[x]], ok |-> RedisGet(s, k, t) # Nil,
        logged |-> FALSE]

\* RedisCache.clear: flushdb; an error is logged and answered with false
CacheClear(s, fail) ==
  IF fail THEN [store |-> s, ok |-> FALSE, logged |-> TRUE]
  ELSE [store |-> <<>>, ok |-> TRUE, logged |-> FALSE]

\* ------------------------------------------------------------ cache, pools
\* buildKey: `${prefix}:${key}`, or the key alone
BuildKey(key, prefix) == IF prefix # "" THEN <<prefix>> \o key ELSE key

\* redis.del(...keys): the number of keys that existed
RedisDel(s, keys, t) ==
  [store |-> [x \in DOMAIN s \ keys |-> s[x]],
   deleted |-> Cardinality({k \in keys : RedisGet(s, k, t) # Nil})]

\* mdelete: del of the built keys; an error is logged and answered with 0
MDelete(s, keys, prefix, t, fail) ==
  LET fullKeys == {BuildKey(k, prefix) : k \in keys} IN
  IF fail THEN [store |-> s, deleted |-> 0, logged |-> TRUE]
  ELSE [store |-> RedisDel(s, fullKeys, t).store,
        deleted |-> RedisDel(s, fullKeys, t).deleted, logged |-> FALSE]

PoolKey(poolId) == <<"pool", poolId>>
TVLKey(poolId) == <<"tvl", poolId>>
SwapsKey(poolId, page) == <<"swaps", poolId, page>>
Prefix == "fluxsight"

\* CACHE_TTL_POOLS, CACHE_TTL_SWAPS, CACHE_TTL_TVL defaults
PoolTTL == 300000
SwapsTTL == 300000
TVLTTL == 60000

\* cachePool, cacheSwaps, cacheTVL
CachePool(s, poolId, n, t, fail) == CacheSet(s, BuildKey(PoolKey(poolId), Prefix), n, PoolTTL, t, fail)
CacheSwaps(s, poolId, page, n, t, fail) ==
  CacheSet(s, BuildKey(SwapsKey(poolId, page), Prefix), n, SwapsTTL, t, fail)
CacheTVL(s, poolId, n, t, fail) == CacheSet(s, BuildKey(TVLKey(poolId), Prefix), n, TVLTTL, t, fail)

\* getCachedPool, getCachedSwaps, getCachedTVL
GetCachedPool(s, poolId, t, fail) == CacheGet(s, BuildKey(PoolKey(poolId), Prefix), t, fail)
GetCachedSwaps(s, poolId, page, t, fail) ==
  CacheGet(s, BuildKey(SwapsKey(poolId, page), Prefix), t, fail)
GetCachedTVL(s, poolId, t, fail) == CacheGet(s, BuildKey(TVLKey(poolId), Prefix), t, fail)

\* invalidatePool: pool, tvl and the swap pages 0 .. 9 are deleted
InvalidatedPages == 10
InvalidatePoolNinePages(s, poolId, t, fail) ==
  MDelete(s, {PoolKey(poolId), TVLKey(poolId)}
               \cup {SwapsKey(poolId, page) : page \in 0..(InvalidatedPages - 2)},
          Prefix, t, fail)

InvalidatePool(s, poolId, t, fail) ==
  MDelete(s, {PoolKey(poolId), TVLKey(poolId)}
               \cup {SwapsKey(poolId, page) : page \in 0..(InvalidatedPages - 1)},
          Prefix, t, fail)

\* redisCache.getOrSet(key, factory, ttl): RedisCache has no such method, the call is a
\* TypeError; the factory is not invoked and nothing is read or stored
GetOrSet(s, key, ttl, t) ==
  [threw |-> TRUE, error |-> "TypeError: getOrSet is not a function", value |-> Null,
   factoryCalls |-> 0, store |-> s]

\* ------------------------------------------------------------ JWT service
RoleSets == {{"READ"}, {"READ", "WRITE", "ADMIN"}}
ClientIds == {"c1", "c2"}

\* JWT_ACCESS_TOKEN_EXPIRY '15m', JWT_REFRESH_TOKEN_EXPIRY '7d', as the regex of
\* parseExpiry splits them
AccessTokenExpiry == [value |-> 15, unit |-> "m"]
RefreshTokenExpiry == [value |-> 7, unit |-> "d"]

\* parseExpiry: seconds
ParseExpiry(e) ==
  CASE e.unit = "s" -> e.value
    [] e.unit = "m" -> e.value * 60
    [] e.unit = "h" -> e.value * 60 * 60
    [] e.unit = "d" -> e.value * 24 * 60 * 60

\* Math.floor(Date.now() / 1000)
Seconds(t) == FloorDiv(t, MsPerSec)

NoPayload == [sub |-> "", roles |-> {}, quotaPerMinute |-> 0, iat |-> 0, exp |-> 0, hasExp |-> FALSE]
\* a token string: what it parses to (form), whether its signature verifies against
\* public.pem (sig), and its claims
NoToken == [form |-> "none", sig |-> "none", payload |-> NoPayload]

\* jwt.sign(payload, privateKey, {algorithm: 'RS256', expiresIn}): jsonwebtoken refuses
\* options.expiresIn when the payload already has an exp claim
JwtSign(payload, options) ==
  IF options.hasExpiresIn /\ payload.hasExp
  THEN [ok |-> FALSE, error |-> "Bad options.expiresIn: the payload already has an exp property",
        token |-> NoToken]
  ELSE [ok |-> TRUE, error |-> "",
        token |-> [form |-> "jwt", sig |-> "good",
                   payload |-> IF options.hasExpiresIn
                               THEN [payload EXCEPT !.exp = payload.iat + options.expiresIn,
                                                    !.hasExp = TRUE]
                               ELSE payload]]

\* jwt.verify(token, publicKey, {algorithms: ['RS256']}) at clock t (ms): parse, then the
\* signature, then exp
JwtVerify(token, t) ==
  IF token.form # "jwt" THEN [ok |-> FALSE, error |-> "JsonWebTokenError", payload |-> NoPayload]
  ELSE IF token.sig # "good" THEN [ok |-> FALSE, error |-> "JsonWebTokenError", payload |-> NoPayload]
  ELSE IF token.payload.hasExp /\ Seconds(t) >= token.payload.exp
       THEN [ok |-> FALSE, error |-> "TokenExpiredError", payload |-> NoPayload]
  ELSE [ok |-> TRUE, error |-> "", payload |-> token.payload]

\* error instanceof jwt.X: TokenExpiredError is a subclass of JsonWebTokenError
InstanceOf(error, class) ==
  \/ error = class
  \/ class = "JsonWebTokenError" /\ error \in {"TokenExpiredError", "NotBeforeError"}

\* mutant: the two instanceof tests in the other order
VerifyTokenBaseClassFirst(token, t) ==
  LET v == JwtVerify(token, t) IN
  IF v.ok THEN [ok |-> TRUE, message |-> "", payload |-> v.payload]
  ELSE IF InstanceOf(v.error, "JsonWebTokenError")
       THEN [ok |-> FALSE, message |-> "Invalid token", payload |-> NoPayload]
  ELSE IF InstanceOf(v.error, "TokenExpiredError")
       THEN [ok |-> FALSE, message |-> "Token expired", payload |-> NoPayload]
  ELSE [ok |-> FALSE, message |-> "Token verification failed", payload |-> NoPayload]

\* JWTService.verifyToken
VerifyToken(token, t) ==
  LET v == JwtVerify(token, t) IN
  IF v.ok THEN [ok |-> TRUE, message |-> "", payload |-> v.payload]
  ELSE IF InstanceOf(v.error, "TokenExpiredError")
       THEN [ok |-> FALSE, message |-> "Token expired", payload |-> NoPayload]
  ELSE IF InstanceOf(v.error, "JsonWebTokenError")
       THEN [ok |-> FALSE, message |-> "Invalid token", payload |-> NoPayload]
  ELSE [ok |-> FALSE, message |-> "Token verification failed", payload |-> NoPayload]

\* JWTService.generateTokenPair at clock t: both payloads carry exp, both sign calls
\* pass expiresIn; an error of jwt.sign is not caught
GenerateTokenPair(clientId, roles, quotaPerMinute, t) ==
  LET base == [sub |-> clientId, roles |-> roles, quotaPerMinute |-> quotaPerMinute,
               iat |-> Seconds(t), exp |-> 0, hasExp |-> TRUE]
      accessTokenPayload == [base EXCEPT !.exp = Seconds(t) + ParseExpiry(AccessTokenExpiry)]
      refreshTokenPayload == [base EXCEPT !.exp = Seconds(t) + ParseExpiry(RefreshTokenExpiry)]
      access == JwtSign(accessTokenPayload,
                        [hasExpiresIn |-> TRUE, expiresIn |-> ParseExpiry(AccessTokenExpiry)])
      refresh == JwtSign(refreshTokenPayload,
                         [hasExpiresIn |-> TRUE, expiresIn |-> ParseExpiry(RefreshTokenExpiry)])
  IN IF ~access.ok
     THEN [ok |-> FALSE, error |-> access.error, accessToken |-> NoToken, refreshToken |-> NoToken]
     ELSE IF ~refresh.ok
     THEN [ok |-> FALSE, error |-> refresh.error, accessToken |-> NoToken, refreshToken |-> NoToken]
     ELSE [ok |-> TRUE, error |-> "", accessToken |-> access.token, refreshToken |-> refresh.token]

\* the two payloads generateTokenPair builds at clock t when JWT_ACCESS_TOKEN_EXPIRY and
\* JWT_REFRESH_TOKEN_EXPIRY are set to the given strings, and the payload refreshAccessToken
\* builds from a verified refresh payload
TokenPairPayloads(clientId, roles, quotaPerMinute, t, accessExpiry, refreshExpiry) ==
  LET base == [sub |-> clientId, roles |-> roles, quotaPerMinute |-> quotaPerMinute,
               iat |-> Seconds(t), exp |-> 0, hasExp |-> TRUE]
  IN [access |-> [base EXCEPT !.exp = Seconds(t) + ParseExpiry(accessExpiry)],
      refresh |-> [base EXCEPT !.exp = Seconds(t) + ParseExpiry(refreshExpiry)]]
RefreshedPayload(payload, t, accessExpiry) ==
  [sub |-> payload.sub, roles |-> payload.roles, quotaPerMinute |-> payload.quotaPerMinute,
   iat |-> Seconds(t), exp |-> Seconds(t) + ParseExpiry(accessExpiry), hasExp |-> TRUE]

NoPair == [ok |-> FALSE, error |-> "", accessToken |-> NoToken, refreshToken |-> NoToken]
NoVerdict == [ok |-> FALSE, message |-> "", payload |-> NoPayload]
NoClient == [id |-> "", roles |-> {}, quotaPerMinute |-> 0]
NoCall == [op |-> "none", at |-> 0, client |-> NoClient, token |-> NoToken,
           pair |-> NoPair, verdict |-> NoVerdict]

\* the instants the clock takes, and the tokens a caller may present: any claims, expiring
\* at one of the instants or a full access lifetime after time 0, well-formed or not,
\* signed with private.pem or not
Instant(k) == IF k % 2 = 1 THEN ((k + 1) \div 2) * WindowMs - 1 ELSE (k \div 2) * WindowMs
TokenExps == {Seconds(Instant(k)) : k \in 1..MaxTicks} \cup {ParseExpiry(AccessTokenExpiry)}
Payloads ==
  [sub : ClientIds, roles : RoleSets, quotaPerMinute : 1..MaxLimit, iat : {0},
   exp : TokenExps, hasExp : {TRUE}]
Tokens ==
  [form : {"jwt"}, sig : {"good", "bad"}, payload : Payloads]
    \cup {[form |-> "garbage", sig |-> "none", payload |-> NoPayload]}

\* ------------------------------------------------------------ rate limiter
\* generateKey: the configured keyGenerator, else rate_limit:<user id or ip>
DefaultKey(user, ip) == IF user.present THEN <<"rate_limit", user.id>> ELSE <<"rate_limit", ip>>
TierKey(user) == <<"rate_limit", "tier", user.id>>

\* mutant: the quota taken as it is, also when it is 0
TierLimitQuotaAsIs(user, maxRequests) == user.quotaPerMinute

\* createTieredRateLimit: with a user, quotaPerMinute || maxRequests under the tier key;
\* without one, the default limiter
TierLimit(user, maxRequests) ==
  IF user.quotaPerMinute # 0 THEN user.quotaPerMinute ELSE maxRequests
\* index.ts mounts createTieredRateLimit()
Tiered(route) == route \in {"tiered", "server"}
ResolveKey(route, user, ip) ==
  IF Tiered(route) /\ user.present THEN TierKey(user) ELSE DefaultKey(user, ip)
ResolveLimit(route, user, maxRequests) ==
  IF Tiered(route) /\ user.present THEN TierLimit(user, maxRequests) ELSE maxRequests

\* mutant: an instant on the boundary put into the window that ends there
WindowStartBoundaryInOld(t, windowMs) == FloorDiv(t - 1, windowMs) * windowMs

\* Math.floor(Date.now() / windowMs) * windowMs
WindowStart(t, windowMs) == FloorDiv(t, windowMs) * windowMs
WindowKey(key, windowStart) == <<key, windowStart>>

\* resetRateLimit: the default key's counter of the window of the clock is deleted
ResetRateLimit(s, user, ip, windowMs, t, fail) ==
  CacheDelete(s, WindowKey(DefaultKey(user, ip), WindowStart(t, windowMs)), t, fail)

\* mutant: only the window counters are removed, cached query results stay
ClearAllCountersOnly(s, fail) ==
  IF fail THEN [store |-> s, ok |-> FALSE, logged |-> TRUE]
  ELSE [store |-> [x \in {k \in DOMAIN s : Len(k) # 2} |-> s[x]], ok |-> TRUE,
        logged |-> FALSE]

\* clearAll: the entire cache is cleared
ClearAll(s, fail) == CacheClear(s, fail)

\* mutant: a missing or unreadable counter read as a used-up quota
CountOfFailClosed(value) == IF value.isNull THEN MaxLimit + 1 ELSE value.num

\* cache.get(windowKey) || 0
CountOf(value) == IF value.isNull THEN 0 ELSE value.num

\* mutant: the comparison off by one (count > limit)
CheckResultOffByOne(count, limit, windowStart, windowMs, t2) ==
  IF count > limit
  THEN [allowed |-> FALSE,
        info |-> [limit |-> limit, remaining |-> 0, resetTime |-> windowStart + windowMs,
                  hasRetryAfter |-> TRUE,
                  retryAfter |-> CeilDiv((windowStart + windowMs) - t2, MsPerSec)]]
  ELSE [allowed |-> TRUE,
        info |-> [limit |-> limit, remaining |-> limit - count - 1,
                  resetTime |-> windowStart + windowMs,
                  hasRetryAfter |-> FALSE, retryAfter |-> 0]]

\* mutant: remaining reported without counting the request itself
CheckResultRemaining(count, limit, windowStart, windowMs, t2) ==
  IF count >= limit
  THEN [allowed |-> FALSE,
        info |-> [limit |-> limit, remaining |-> 0, resetTime |-> windowStart + windowMs,
                  hasRetryAfter |-> TRUE,
                  retryAfter |-> CeilDiv((windowStart + windowMs) - t2, MsPerSec)]]
  ELSE [allowed |-> TRUE,
        info |-> [limit |-> limit, remaining |-> limit - count,
                  resetTime |-> windowStart + windowMs,
                  hasRetryAfter |-> FALSE, retryAfter |-> 0]]

\* checkRateLimit after its read: t2 is the Date.now() read for retryAfter
CheckResult(count, limit, windowStart, windowMs, t2) ==
  IF count >= limit
  THEN [allowed |-> FALSE,
        info |-> [limit |-> limit, remaining |-> 0, resetTime |-> windowStart + windowMs,
                  hasRetryAfter |-> TRUE,
                  retryAfter |-> CeilDiv((windowStart + windowMs) - t2, MsPerSec)]]
  ELSE [allowed |-> TRUE,
        info |-> [limit |-> limit, remaining |-> limit - count - 1,
                  resetTime |-> windowStart + windowMs,
                  hasRetryAfter |-> FALSE, retryAfter |-> 0]]

\* info.retryAfter || 0
RetryAfterOrZero(info) == IF info.hasRetryAfter /\ info.retryAfter # 0 THEN info.retryAfter ELSE 0

\* new RateLimitError(message, retryAfter): the source declares it as an interface
\* (types/api.ts), with the code fixed by the type
RateLimitError(retryAfter) == [code |-> "RATE_LIMIT_EXCEEDED", retryAfter |-> retryAfter]
NoError == [code |-> "", retryAfter |-> 0]

NoHeaders == [set |-> FALSE, limit |-> 0, remaining |-> 0, reset |-> 0]
RateLimitHeaders(info) ==
  [set |-> TRUE, limit |-> info.limit, remaining |-> info.remaining, reset |-> info.resetTime]

\* -------------------------------------------------- authentication middleware
NoHeader == [present |-> FALSE, scheme |-> "", token |-> NoToken]
Bearer(token) == [present |-> TRUE, scheme |-> "Bearer", token |-> token]
Headers ==
  {NoHeader} \cup {Bearer(t) : t \in Tokens}
    \cup {[present |-> TRUE, scheme |-> "Basic", token |-> t] : t \in {NoToken}}

\* extractToken: the second part of "Bearer <token>", else null
ExtractToken(header) ==
  IF ~header.present THEN NoToken
  ELSE IF header.scheme # "Bearer" THEN NoToken
  ELSE header.token

\* createGraphQLContext: no token, or a token that fails, gives an unauthenticated context
NoContext == [made |-> FALSE, user |-> NoUser, isAuthenticated |-> FALSE, authError |-> ""]
CreateGraphQLContext(header, t) ==
  LET token == ExtractToken(header)
      v == VerifyToken(token, t)
  IN IF token = NoToken
     THEN [made |-> TRUE, user |-> NoUser, isAuthenticated |-> FALSE, authError |-> ""]
     ELSE IF v.ok
     THEN [made |-> TRUE,
           user |-> [present |-> TRUE, id |-> v.payload.sub, roles |-> v.payload.roles,
                     quotaPerMinute |-> v.payload.quotaPerMinute],
           isAuthenticated |-> TRUE, authError |-> ""]
     ELSE [made |-> TRUE, user |-> NoUser, isAuthenticated |-> FALSE, authError |-> v.message]

\* ------------------------------------------------------------ API key service
Tiers == {"FREE", "STANDARD", "ENTERPRISE"}
\* request.tier as a caller may send it: the declared tiers and one that is none of them
TierInputs == Tiers \cup {"GOLD"}
Statuses == {"ACTIVE", "SUSPENDED"}

\* crypto.randomUUID() and crypto.randomBytes(32): fresh values, named here by the order
\* in which they are drawn
UUIDs == <<"c1", "c2">>
APIKeys == <<"k1", "k2">>
\* the keys a caller may present: the generated ones and one that was never generated
PresentedKeys == {APIKeys[i] : i \in DOMAIN APIKeys} \cup {"kx"}

\* hashAPIKey: sha256 hex digest
HashAPIKey(apiKey) == <<"sha256", apiKey>>

\* mutant: STANDARD configured like FREE
GetTierConfigStandardAsFree(tier) ==
  CASE tier = "FREE" -> [ok |-> TRUE, quotaPerMinute |-> 100, roles |-> {"READ"}, error |-> ""]
    [] tier = "STANDARD" -> [ok |-> TRUE, quotaPerMinute |-> 100, roles |-> {"READ"}, error |-> ""]
    [] tier = "ENTERPRISE" ->
         [ok |-> TRUE, quotaPerMinute |-> 10000, roles |-> {"READ", "WRITE", "ADMIN"}, error |-> ""]
    [] OTHER -> [ok |-> FALSE, quotaPerMinute |-> 0, roles |-> {}, error |-> "Invalid tier"]

\* getTierConfig: the switch over the tier, throwing on any other value
GetTierConfig(tier) ==
  CASE tier = "FREE" -> [ok |-> TRUE, quotaPerMinute |-> 100, roles |-> {"READ"}, error |-> ""]
    [] tier = "STANDARD" -> [ok |-> TRUE, quotaPerMinute |-> 1000, roles |-> {"READ"}, error |-> ""]
    [] tier = "ENTERPRISE" ->
         [ok |-> TRUE, quotaPerMinute |-> 10000, roles |-> {"READ", "WRITE", "ADMIN"}, error |-> ""]
    [] OTHER -> [ok |-> FALSE, quotaPerMinute |-> 0, roles |-> {}, error |-> "Invalid tier"]

\* a ClientApplication; name, createdAt and createdBy take no part in any decision and
\* are left out
NoClientApp ==
  [id |-> "", apiKey |-> <<>>, hasPlaintext |-> FALSE, apiKeyPlaintext |-> "",
   tier |-> "", quotaPerMinute |-> 0, roles |-> {}, status |-> "",
   hasLastUsedAt |-> FALSE, lastUsedAt |-> 0]

\* createClient: the tier is looked up before the record is built and stored; the stored
\* object is the one built with apiKeyPlaintext, the returned one a copy of it
CreateClient(cs, tier) ==
  LET clientId == UUIDs[Len(cs) + 1]
      apiKeyPlaintext == APIKeys[Len(cs) + 1]
      tierConfig == GetTierConfig(tier)
      client == [id |-> clientId, apiKey |-> HashAPIKey(apiKeyPlaintext),
                 hasPlaintext |-> TRUE, apiKeyPlaintext |-> apiKeyPlaintext,
                 tier |-> tier, quotaPerMinute |-> tierConfig.quotaPerMinute,
                 roles |-> tierConfig.roles, status |-> "ACTIVE",
                 hasLastUsedAt |-> FALSE, lastUsedAt |-> 0]
  IN IF ~tierConfig.ok
     THEN [ok |-> FALSE, error |-> tierConfig.error, clients |-> cs, client |-> NoClientApp]
     ELSE [ok |-> TRUE, error |-> "", clients |-> Append(cs, client), client |-> client]

\* mutant: the loop without the status test
MatchesAnyStatus(cs, apiKey) == {i \in DOMAIN cs : cs[i].apiKey = HashAPIKey(apiKey)}
\* the stored clients that satisfy the test of the loop of authenticateClient
Matches(cs, apiKey) ==
  {i \in DOMAIN cs : cs[i].apiKey = HashAPIKey(apiKey) /\ cs[i].status = "ACTIVE"}
\* the first of them in insertion order
First(S) == CHOOSE i \in S : \A j \in S : i <= j

\* mutant: the matching client is returned without the timestamp being written
AuthenticateClientNoTimestamp(cs, apiKey, t) ==
  LET found == Matches(cs, apiKey) IN
  IF found = {}
  THEN [found |-> FALSE, clients |-> cs, client |-> NoClientApp]
  ELSE [found |-> TRUE, clients |-> cs, client |-> cs[First(found)]]

\* authenticateClient at clock t: the matching client gets lastUsedAt and is returned (the
\* stored object itself), otherwise null
AuthenticateClient(cs, apiKey, t) ==
  LET found == Matches(cs, apiKey) IN
  IF found = {}
  THEN [found |-> FALSE, clients |-> cs, client |-> NoClientApp]
  ELSE LET i == First(found)
           used == [cs[i] EXCEPT !.hasLastUsedAt = TRUE, !.lastUsedAt = t]
       IN [found |-> TRUE, clients |-> [cs EXCEPT ![i] = used], client |-> used]

\* this.clients.get(clientId)
Lookup(cs, clientId) == {i \in DOMAIN cs : cs[i].id = clientId}

\* getClient: a copy of the stored record, or null
GetClient(cs, clientId) ==
  IF Lookup(cs, clientId) = {}
  THEN [found |-> FALSE, client |-> NoClientApp]
  ELSE [found |-> TRUE, client |-> cs[First(Lookup(cs, clientId))]]

\* listClients: copies of all stored records
ListClients(cs) == [i \in DOMAIN cs |-> cs[i]]

\* updateClientStatus
UpdateClientStatus(cs, clientId, status) ==
  IF Lookup(cs, clientId) = {}
  THEN [ok |-> FALSE, clients |-> cs]
  ELSE [ok |-> TRUE,
        clients |-> [cs EXCEPT ![First(Lookup(cs, clientId))] = [@ EXCEPT !.status = status]]]

\* updateClientQuota: the number is stored as it comes; the tier is not looked at
UpdateClientQuota(cs, clientId, quotaPerMinute) ==
  IF Lookup(cs, clientId) = {}
  THEN [ok |-> FALSE, clients |-> cs]
  ELSE [ok |-> TRUE,
        clients |-> [cs EXCEPT ![First(Lookup(cs, clientId))] =
                                   [@ EXCEPT !.quotaPerMinute = quotaPerMinute]]]

\* deleteClient: soft delete by suspending
DeleteClient(cs, clientId) == UpdateClientStatus(cs, clientId, "SUSPENDED")

\* no call of the API key service or the token endpoints yet
NoAuthCall == [op |-> "none", at |-> 0, arg |-> [none |-> TRUE], res |-> [none |-> TRUE]]

\* generateTokens
GenerateTokens(client, t) ==
  GenerateTokenPair(client.id, client.roles, client.quotaPerMinute, t)

\* --------------------------------------- JWT refresh, authentication middleware
\* JWTService.refreshAccessToken at clock t: the refresh token is verified, then a payload
\* with the same sub, roles and quota and its own exp is signed with expiresIn
RefreshAccessToken(refreshToken, t) ==
  LET v == VerifyToken(refreshToken, t)
      accessTokenPayload ==
        [sub |-> v.payload.sub, roles |-> v.payload.roles,
         quotaPerMinute |-> v.payload.quotaPerMinute, iat |-> Seconds(t),
         exp |-> Seconds(t) + ParseExpiry(AccessTokenExpiry), hasExp |-> TRUE]
      signed == JwtSign(accessTokenPayload,
                        [hasExpiresIn |-> TRUE, expiresIn |-> ParseExpiry(AccessTokenExpiry)])
  IN IF ~v.ok THEN [ok |-> FALSE, error |-> v.message, token |-> NoToken]
     ELSE IF ~signed.ok THEN [ok |-> FALSE, error |-> signed.error, token |-> NoToken]
     ELSE [ok |-> TRUE, error |-> "", token |-> signed.token]

\* new AuthenticationError(message, code): declared as an interface (types/api.ts)
AuthenticationError(message, code) == [message |-> message, code |-> code]
NoAuthError == [message |-> "", code |-> ""]

\* AuthenticationMiddleware.verifyToken: the user of the payload, or an
\* AuthenticationError with the message of the JWT service and the code INVALID_TOKEN
MiddlewareVerifyToken(token, t) ==
  LET v == VerifyToken(token, t) IN
  IF v.ok
  THEN [ok |-> TRUE, error |-> NoAuthError,
        user |-> [present |-> TRUE, id |-> v.payload.sub, roles |-> v.payload.roles,
                  quotaPerMinute |-> v.payload.quotaPerMinute]]
  ELSE [ok |-> FALSE, error |-> AuthenticationError(v.message, "INVALID_TOKEN"), user |-> NoUser]

\* authenticate(): 401 with the error when there is no token or it fails, else req.user is
\* set and next() is called
Authenticate(header, t) ==
  LET token == ExtractToken(header)
      v == MiddlewareVerifyToken(token, t)
  IN IF token = NoToken
     THEN [status |-> 401, error |-> AuthenticationError("Authentication required", "UNAUTHENTICATED"),
           user |-> NoUser, nextCalls |-> 0]
     ELSE IF ~v.ok
     THEN [status |-> 401, error |-> v.error, user |-> NoUser, nextCalls |-> 0]
     ELSE [status |-> 0, error |-> NoAuthError, user |-> v.user, nextCalls |-> 1]

\* new AuthorizationError(message, code, requiredRole): declared as an interface
AuthorizationError(message, code, requiredRole) ==
  [message |-> message, code |-> code, requiredRole |-> requiredRole]
NoRoleError == [message |-> "", code |-> "", requiredRole |-> ""]

\* mutant: any authenticated user is passed on
RequireRoleAnyUser(user, role) ==
  IF ~user.present
  THEN [status |-> 401, responses |-> 1, nextCalls |-> 0,
        error |-> AuthenticationError("Authentication required", "UNAUTHENTICATED")]
  ELSE [status |-> 0, responses |-> 0, nextCalls |-> 1, error |-> NoRoleError]

\* requireRole(role): 401 without req.user, 403 when roles does not include the role,
\* else next()
RequireRole(user, role) ==
  IF ~user.present
  THEN [status |-> 401, responses |-> 1, nextCalls |-> 0,
        error |-> AuthenticationError("Authentication required", "UNAUTHENTICATED")]
  ELSE IF role \notin user.roles
  THEN [status |-> 403, responses |-> 1, nextCalls |-> 0,
        error |-> AuthorizationError("Insufficient permissions", "INSUFFICIENT_PERMISSIONS", role)]
  ELSE [status |-> 0, responses |-> 0, nextCalls |-> 1, error |-> NoRoleError]

\* requireAnyRole(roles): 401 without req.user, 403 when no role of the list is held,
\* else next()
RequireAnyRole(user, roles) ==
  LET hasRole == \E role \in roles : role \in user.roles IN
  IF ~user.present
  THEN [status |-> 401, responses |-> 1, nextCalls |-> 0,
        error |-> AuthenticationError("Authentication required", "UNAUTHENTICATED")]
  ELSE IF ~hasRole
  THEN [status |-> 403, responses |-> 1, nextCalls |-> 0,
        error |-> AuthorizationError("Insufficient permissions", "INSUFFICIENT_PERMISSIONS", "")]
  ELSE [status |-> 0, responses |-> 0, nextCalls |-> 1, error |-> NoRoleError]

\* mutant: the exchange tells a suspended client from an unknown key
GenerateTokensForClientRevealing(cs, apiKey, t) ==
  LET a == AuthenticateClient(cs, apiKey, t)
      pair == GenerateTokens(a.client, t)
  IN IF ~a.found
     THEN [ok |-> FALSE,
           error |-> IF MatchesAnyStatus(cs, apiKey) # {}
                     THEN AuthenticationError("Client suspended", "CLIENT_SUSPENDED")
                     ELSE AuthenticationError("Invalid API key", "INVALID_API_KEY"),
           clients |-> a.clients, pair |-> NoPair]
     ELSE IF ~pair.ok
     THEN [ok |-> FALSE, error |-> [message |-> pair.error, code |-> ""],
           clients |-> a.clients, pair |-> NoPair]
     ELSE [ok |-> TRUE, error |-> NoAuthError, clients |-> a.clients, pair |-> pair]

\* generateTokensForClient: authenticateClient, 'Invalid API key' when it returns null,
\* else generateTokens, whose error is not caught
GenerateTokensForClient(cs, apiKey, t) ==
  LET a == AuthenticateClient(cs, apiKey, t)
      pair == GenerateTokens(a.client, t)
  IN IF ~a.found
     THEN [ok |-> FALSE, error |-> AuthenticationError("Invalid API key", "INVALID_API_KEY"),
           clients |-> a.clients, pair |-> NoPair]
     ELSE IF ~pair.ok
     THEN [ok |-> FALSE, error |-> [message |-> pair.error, code |-> ""],
           clients |-> a.clients, pair |-> NoPair]
     ELSE [ok |-> TRUE, error |-> NoAuthError, clients |-> a.clients, pair |-> pair]

\* mutant: the error of verifyToken passed on as it is thrown
MiddlewareRefreshAccessTokenUncaught(refreshToken, t) ==
  LET v == VerifyToken(refreshToken, t)
      r == RefreshAccessToken(refreshToken, t)
  IN IF ~v.ok
     THEN [ok |-> FALSE, error |-> [message |-> v.message, code |-> ""],
           accessToken |-> NoToken, refreshToken |-> NoToken]
     ELSE IF ~r.ok
     THEN [ok |-> FALSE, error |-> AuthenticationError(r.error, "INVALID_REFRESH_TOKEN"),
           accessToken |-> NoToken, refreshToken |-> NoToken]
     ELSE [ok |-> TRUE, error |-> NoAuthError, accessToken |-> r.token,
           refreshToken |-> refreshToken]

\* AuthenticationMiddleware.refreshAccessToken: verifyToken, then the JWT service's
\* refreshAccessToken; any error becomes INVALID_REFRESH_TOKEN; the refresh token is
\* handed back as it came
MiddlewareRefreshAccessToken(refreshToken, t) ==
  LET v == VerifyToken(refreshToken, t)
      r == RefreshAccessToken(refreshToken, t)
  IN IF ~v.ok
     THEN [ok |-> FALSE, error |-> AuthenticationError(v.message, "INVALID_REFRESH_TOKEN"),
           accessToken |-> NoToken, refreshToken |-> NoToken]
     ELSE IF ~r.ok
     THEN [ok |-> FALSE, error |-> AuthenticationError(r.error, "INVALID_REFRESH_TOKEN"),
           accessToken |-> NoToken, refreshToken |-> NoToken]
     ELSE [ok |-> TRUE, error |-> NoAuthError, accessToken |-> r.token,
           refreshToken |-> refreshToken]

\* ------------------------------------------------------------------ requests
IdleReq ==
  [pc |-> "idle", auth |-> NoHeader, user |-> NoUser, ip |-> "ip1", key |-> <<>>, limit |-> 0,
   ctx |-> NoContext, resolved |-> FALSE,
   windowStart |-> 0, currentCount |-> 0,
   incWindowStart |-> 0, newCount |-> 0,
   outcome |-> "none", status |-> 0, headers |-> NoHeaders,
   hasRetryHeader |-> FALSE, retryHeader |-> 0, error |-> NoError,
   nextCalls |-> 0, storeFailed |-> FALSE, logged |-> FALSE]

InFlight == {r \in Req : reqs[r].pc \notin {"idle", "done"}}
Failures == Cardinality({r \in Req : reqs[r].storeFailed})
\* a store operation may fail while fewer than MaxFail requests have met a failure
MayFail == {FALSE} \cup {f \in {TRUE} : Failures < MaxFail}

Init ==
  /\ now = 0
  /\ ticks = 0
  /\ config \in [windowMs : {WindowMs}, maxRequests : Limits, route : Routes]
  /\ store = <<>>
  /\ \E u \in Users, ip \in IPs : reqs = [r \in Req |-> [IdleReq EXCEPT !.user = u, !.ip = ip]]
  /\ jwt = NoCall
  /\ clients = <<>>
  /\ call = NoAuthCall

\* The middleware is entered.  createConditionalRateLimit passes a request on untouched
\* when skipCondition holds; otherwise rateLimit() starts checkRateLimit, which reads the
\* clock and issues cache.get(windowKey).
Begin(r, skip) ==
  /\ reqs[r].pc = "idle"
  /\ \A q \in Req : q < r => reqs[q].pc # "idle"
  /\ IF config.route = "conditional" /\ skip
     THEN reqs' = [reqs EXCEPT ![r] = [@ EXCEPT !.pc = "done", !.outcome = "skipped",
                                                !.nextCalls = @ + 1]]
     ELSE reqs' = [reqs EXCEPT ![r] =
                    [@ EXCEPT !.pc = "check",
                              !.key = ResolveKey(config.route, reqs[r].user, reqs[r].ip),
                              !.limit = ResolveLimit(config.route, reqs[r].user, config.maxRequests),
                              !.windowStart = WindowStart(now, config.windowMs)]]
  /\ UNCHANGED <<now, ticks, config, store, jwt, authVars>>

\* cache.get returns into checkRateLimit; rateLimit() sets the headers, then answers 429
\* or enters incrementCount, which reads the clock again and issues its own cache.get.
CheckReturn(r, fail) ==
  /\ reqs[r].pc = "check"
  /\ LET q == reqs[r]
         got == CacheGet(store, WindowKey(q.key, q.windowStart), now, fail)
         count == CountOf(got.value)
         res == CheckResult(count, q.limit, q.windowStart, config.windowMs, now)
         seen == [q EXCEPT !.currentCount = count,
                           !.headers = RateLimitHeaders(res.info),
                           !.storeFailed = @ \/ fail, !.logged = @ \/ got.logged]
     IN IF ~res.allowed
        THEN reqs' = [reqs EXCEPT ![r] =
                       [seen EXCEPT !.pc = "done", !.outcome = "rejected", !.status = 429,
                                    !.hasRetryHeader = TRUE,
                                    !.retryHeader = RetryAfterOrZero(res.info),
                                    !.error = RateLimitError(RetryAfterOrZero(res.info))]]
        ELSE reqs' = [reqs EXCEPT ![r] =
                       [seen EXCEPT !.pc = "inc_get",
                                    !.incWindowStart = WindowStart(now, config.windowMs)]]
  /\ UNCHANGED <<now, ticks, config, store, jwt, authVars>>

\* incrementCount: cache.get returns, newCount = currentCount + 1, cache.set is issued
IncGetReturn(r, fail) ==
  /\ reqs[r].pc = "inc_get"
  /\ LET q == reqs[r]
         got == CacheGet(store, WindowKey(q.key, q.incWindowStart), now, fail)
     IN reqs' = [reqs EXCEPT ![r] =
                  [q EXCEPT !.pc = "inc_set", !.newCount = CountOf(got.value) + 1,
                            !.storeFailed = @ \/ fail, !.logged = @ \/ got.logged]]
  /\ UNCHANGED <<now, ticks, config, store, jwt, authVars>>

\* incrementCount: cache.set(windowKey, newCount, {ttl: windowMs}) takes effect, then next()
IncSetReturn(r, fail) ==
  /\ reqs[r].pc = "inc_set"
  /\ LET q == reqs[r]
         put == CacheSet(store, WindowKey(q.key, q.incWindowStart), q.newCount,
                         config.windowMs, now, fail)
     IN /\ store' = put.store
        /\ reqs' = [reqs EXCEPT ![r] =
                     [q EXCEPT !.pc = IF config.route = "server" THEN "graphql" ELSE "done",
                               !.outcome = "passed", !.nextCalls = @ + 1,
                               !.storeFailed = @ \/ fail, !.logged = @ \/ put.logged]]
  /\ UNCHANGED <<now, ticks, config, jwt, authVars>>

\* index.ts: after the limiter, expressMiddleware builds the context with
\* createGraphQLContext and runs the operation; the resolvers do not read the context
GraphQL(r) ==
  /\ reqs[r].pc = "graphql"
  /\ reqs' = [reqs EXCEPT ![r] =
                [@ EXCEPT !.pc = "done", !.ctx = CreateGraphQLContext(reqs[r].auth, now),
                          !.resolved = TRUE, !.status = 200]]
  /\ UNCHANGED <<now, ticks, config, store, jwt, authVars>>

\* JWTService.generateTokenPair is called
GenerateTokenPairCall(id, roles, quota) ==
  /\ jwt' = [NoCall EXCEPT !.op = "generateTokenPair", !.at = now,
                           !.client = [id |-> id, roles |-> roles, quotaPerMinute |-> quota],
                           !.pair = GenerateTokenPair(id, roles, quota, now)]
  /\ UNCHANGED <<now, ticks, config, store, reqs, authVars>>

\* JWTService.verifyToken is called
VerifyTokenCall(token) ==
  /\ jwt' = [NoCall EXCEPT !.op = "verifyToken", !.at = now, !.token = token,
                           !.verdict = VerifyToken(token, now)]
  /\ UNCHANGED <<now, ticks, config, store, reqs, authVars>>

\* Time passes: to the last millisecond of the window, then to the next window's start
NextInstant(t, windowMs) == IF t % windowMs = 0 THEN t + windowMs - 1 ELSE t + 1
Tick ==
  /\ ticks < MaxTicks
  /\ now' = NextInstant(now, config.windowMs)
  /\ ticks' = ticks + 1
  /\ store' = Purge(store, now')
  /\ UNCHANGED <<config, reqs, jwt, authVars>>

\* Concurrent requests, store failures on any operation
Next ==
  \/ \E r \in 1..MaxInFlight, skip \in BOOLEAN : Begin(r, skip)
  \/ \E r \in Req, fail \in MayFail : CheckReturn(r, fail)
  \/ \E r \in Req, fail \in MayFail : IncGetReturn(r, fail)
  \/ \E r \in Req, fail \in MayFail : IncSetReturn(r, fail)
  \/ Tick

Spec == Init /\ [][Next]_vars

\* One request at a time, working store
NextSeq ==
  \/ \E r \in Req : InFlight = {} /\ Begin(r, FALSE)
  \/ \E r \in Req : CheckReturn(r, FALSE)
  \/ \E r \in Req : IncGetReturn(r, FALSE)
  \/ \E r \in Req : IncSetReturn(r, FALSE)
  \/ Tick

SpecSeq == Init /\ [][NextSeq]_vars

\* One request at a time with a window that is no whole number of seconds
\* (RATE_LIMIT_WINDOW_MS, or the config object given to the constructor)
OddWindows == {500, 1500}
InitOdd ==
  /\ now = 0
  /\ ticks = 0
  /\ config \in [windowMs : OddWindows, maxRequests : Limits, route : Routes]
  /\ store = <<>>
  /\ \E u \in Users, ip \in IPs : reqs = [r \in Req |-> [IdleReq EXCEPT !.user = u, !.ip = ip]]
  /\ jwt = NoCall
  /\ clients = <<>>
  /\ call = NoAuthCall

SpecOdd == InitOdd /\ [][NextSeq]_vars

\* One request at a time, store failures on any operation
NextFail ==
  \/ \E r \in Req, skip \in BOOLEAN : InFlight = {} /\ Begin(r, skip)
  \/ \E r \in Req, fail \in MayFail : CheckReturn(r, fail)
  \/ \E r \in Req, fail \in MayFail : IncGetReturn(r, fail)
  \/ \E r \in Req, fail \in MayFail : IncSetReturn(r, fail)
  \/ Tick

SpecFail == Init /\ [][NextFail]_vars

\* The server of index.ts: concurrent requests of one caller through the mounted chain
InitPipe ==
  /\ now = 0
  /\ ticks = 0
  /\ config \in [windowMs : {WindowMs}, maxRequests : Limits, route : {"server"}]
  /\ store = <<>>
  /\ \E h \in Headers, ip \in IPs : reqs = [r \in Req |-> [IdleReq EXCEPT !.auth = h, !.ip = ip]]
  /\ jwt = NoCall
  /\ clients = <<>>
  /\ call = NoAuthCall

NextPipe ==
  \/ \E r \in 1..MaxInFlight : Begin(r, FALSE)
  \/ \E r \in Req : CheckReturn(r, FALSE)
  \/ \E r \in Req : IncGetReturn(r, FALSE)
  \/ \E r \in Req : IncSetReturn(r, FALSE)
  \/ \E r \in Req : GraphQL(r)
  \/ Tick

SpecPipe == InitPipe /\ [][NextPipe]_vars

\* The server of index.ts called from one address by two clients, each request carrying
\* its client's access token signed with keys/private.pem
AccessTokenOf(id) ==
  [form |-> "jwt", sig |-> "good",
   payload |-> [sub |-> id, roles |-> {"READ"}, quotaPerMinute |-> MaxLimit, iat |-> 0,
                exp |-> ParseExpiry(AccessTokenExpiry), hasExp |-> TRUE]]
InitShared ==
  /\ now = 0
  /\ ticks = 0
  /\ config \in [windowMs : {WindowMs}, maxRequests : Limits, route : {"server"}]
  /\ store = <<>>
  /\ \E sender \in [Req -> ClientIds], ip \in IPs :
        reqs = [r \in Req |-> [IdleReq EXCEPT !.auth = Bearer(AccessTokenOf(sender[r])),
                                              !.ip = ip]]
  /\ jwt = NoCall
  /\ clients = <<>>
  /\ call = NoAuthCall

SpecShared == InitShared /\ [][NextPipe]_vars

\* The JWT service alone
InitJWT ==
  /\ now = 0
  /\ ticks = 0
  /\ config = [windowMs |-> WindowMs, maxRequests |-> MaxLimit, route |-> "plain"]
  /\ store = <<>>
  /\ reqs = [r \in Req |-> IdleReq]
  /\ jwt = NoCall
  /\ clients = <<>>
  /\ call = NoAuthCall

NextJWT ==
  \/ \E id \in ClientIds, roles \in RoleSets, quota \in 1..MaxLimit :
        GenerateTokenPairCall(id, roles, quota)
  \/ \E token \in Tokens : VerifyTokenCall(token)
  \/ Tick

SpecJWT == InitJWT /\ [][NextJWT]_vars

\* ------------------------------------------- API key service, token endpoints
\* the tokens a caller of the token endpoints may hold: for each client id the two
\* payloads generateTokenPair builds at time 0 (access and refresh lifetime), signed with
\* private.pem or with another key, and a string that is no JWT
TokenLifetimes == {ParseExpiry(AccessTokenExpiry), ParseExpiry(RefreshTokenExpiry)}
HeldTokens ==
  {[form |-> "jwt", sig |-> g,
    payload |-> [sub |-> id, roles |-> {"READ"}, quotaPerMinute |-> 100, iat |-> 0,
                 exp |-> life, hasExp |-> TRUE]] :
      g \in {"good", "bad"}, id \in ClientIds, life \in TokenLifetimes}
    \cup {[form |-> "garbage", sig |-> "none", payload |-> NoPayload]}
\* the tokens among them that were signed with private.pem
SignedTokens == {t \in HeldTokens : t.sig = "good"}
HeldHeaders == {NoHeader} \cup {Bearer(t) : t \in HeldTokens}

CreateClientCall(tier) ==
  /\ Len(clients) < Len(UUIDs)
  /\ LET r == CreateClient(clients, tier) IN
       /\ clients' = r.clients
       /\ call' = [op |-> "createClient", at |-> now, arg |-> [tier |-> tier],
                   res |-> [ok |-> r.ok, error |-> r.error, client |-> r.client]]
  /\ UNCHANGED <<now, ticks, config, store, reqs, jwt>>

AuthenticateClientCall(apiKey) ==
  /\ LET r == AuthenticateClient(clients, apiKey, now) IN
       /\ clients' = r.clients
       /\ call' = [op |-> "authenticateClient", at |-> now, arg |-> [apiKey |-> apiKey],
                   res |-> [found |-> r.found, client |-> r.client]]
  /\ UNCHANGED <<now, ticks, config, store, reqs, jwt>>

GetClientCall(clientId) ==
  /\ call' = [op |-> "getClient", at |-> now, arg |-> [clientId |-> clientId],
              res |-> GetClient(clients, clientId)]
  /\ UNCHANGED <<now, ticks, config, store, reqs, jwt, clients>>

ListClientsCall ==
  /\ call' = [op |-> "listClients", at |-> now, arg |-> [none |-> TRUE],
              res |-> [list |-> ListClients(clients)]]
  /\ UNCHANGED <<now, ticks, config, store, reqs, jwt, clients>>

UpdateClientStatusCall(clientId, status) ==
  /\ LET r == UpdateClientStatus(clients, clientId, status) IN
       /\ clients' = r.clients
       /\ call' = [op |-> "updateClientStatus", at |-> now,
                   arg |-> [clientId |-> clientId, status |-> status], res |-> [ok |-> r.ok]]
  /\ UNCHANGED <<now, ticks, config, store, reqs, jwt>>

DeleteClientCall(clientId) ==
  /\ LET r == DeleteClient(clients, clientId) IN
       /\ clients' = r.clients
       /\ call' = [op |-> "deleteClient", at |-> now, arg |-> [clientId |-> clientId],
                   res |-> [ok |-> r.ok]]
  /\ UNCHANGED <<now, ticks, config, store, reqs, jwt>>

GenerateTokensForClientCall(apiKey) ==
  /\ LET r == GenerateTokensForClient(clients, apiKey, now) IN
       /\ clients' = r.clients
       /\ call' = [op |-> "generateTokensForClient", at |-> now, arg |-> [apiKey |-> apiKey],
                   res |-> [ok |-> r.ok, error |-> r.error, pair |-> r.pair]]
  /\ UNCHANGED <<now, ticks, config, store, reqs, jwt>>

\* a request through authenticate()
AuthenticateCall(header) ==
  /\ call' = [op |-> "authenticate", at |-> now, arg |-> [header |-> header],
              res |-> Authenticate(header, now)]
  /\ UNCHANGED <<now, ticks, config, store, reqs, jwt, clients>>

\* AuthenticationMiddleware.refreshAccessToken
MiddlewareRefreshAccessTokenCall(token) ==
  /\ call' = [op |-> "middleware.refreshAccessToken", at |-> now, arg |-> [token |-> token],
              res |-> MiddlewareRefreshAccessToken(token, now)]
  /\ UNCHANGED <<now, ticks, config, store, reqs, jwt, clients>>

\* JWTService.refreshAccessToken
RefreshAccessTokenCall(token) ==
  /\ call' = [op |-> "refreshAccessToken", at |-> now, arg |-> [token |-> token],
              res |-> RefreshAccessToken(token, now)]
  /\ UNCHANGED <<now, ticks, config, store, reqs, jwt, clients>>

\* Time passes by one access-token lifetime
Elapse ==
  /\ ticks < MaxTicks
  /\ now' = now + ParseExpiry(AccessTokenExpiry) * MsPerSec
  /\ ticks' = ticks + 1
  /\ store' = Purge(store, now')
  /\ UNCHANGED <<config, reqs, jwt, authVars>>

\* The API key service and the token exchange
InitKeys ==
  /\ now = 0
  /\ ticks = 0
  /\ config = [windowMs |-> WindowMs, maxRequests |-> MaxLimit, route |-> "plain"]
  /\ store = <<>>
  /\ reqs = [r \in Req |-> IdleReq]
  /\ jwt = NoCall
  /\ clients = <<>>
  /\ call = NoAuthCall

NextKeys ==
  \/ \E tier \in TierInputs : CreateClientCall(tier)
  \/ \E apiKey \in PresentedKeys : AuthenticateClientCall(apiKey)
  \/ \E id \in ClientIds : GetClientCall(id)
  \/ ListClientsCall
  \/ \E id \in ClientIds, status \in Statuses : UpdateClientStatusCall(id, status)
  \/ \E id \in ClientIds : DeleteClientCall(id)
  \/ \E apiKey \in PresentedKeys : GenerateTokensForClientCall(apiKey)
  \/ Elapse

SpecKeys == InitKeys /\ [][NextKeys]_vars

\* The token endpoints: authenticate(), the two refreshAccessToken and verifyToken
NextTokens ==
  \/ \E header \in HeldHeaders : AuthenticateCall(header)
  \/ \E token \in HeldTokens : MiddlewareRefreshAccessTokenCall(token)
  \/ \E token \in HeldTokens : RefreshAccessTokenCall(token)
  \/ \E token \in HeldTokens : VerifyTokenCall(token)
  \/ Elapse

SpecTokens == InitKeys /\ [][NextTokens]_vars

\* The credential store under administration: clients are created, authenticate, are
\* looked up, suspended, restored and given another quota
QuotaInputs == {1000}
AdminTiers == {"FREE", "ENTERPRISE"}
UpdateClientQuotaCall(clientId, quotaPerMinute) ==
  /\ LET r == UpdateClientQuota(clients, clientId, quotaPerMinute) IN
       /\ clients' = r.clients
       /\ call' = [op |-> "updateClientQuota", at |-> now,
                   arg |-> [clientId |-> clientId, quotaPerMinute |-> quotaPerMinute],
                   res |-> [ok |-> r.ok,
                            old |-> IF r.ok
                                    THEN clients[First(Lookup(clients, clientId))].quotaPerMinute
                                    ELSE 0]]
  /\ UNCHANGED <<now, ticks, config, store, reqs, jwt>>

NextAdmin ==
  \/ \E tier \in AdminTiers : CreateClientCall(tier)
  \/ \E apiKey \in PresentedKeys : AuthenticateClientCall(apiKey)
  \/ \E id \in ClientIds : GetClientCall(id)
  \/ ListClientsCall
  \/ \E id \in ClientIds, status \in Statuses : UpdateClientStatusCall(id, status)
  \/ \E id \in ClientIds, q \in QuotaInputs : UpdateClientQuotaCall(id, q)
  \/ \E id \in ClientIds : DeleteClientCall(id)
  \/ Elapse

SpecAdmin == InitKeys /\ [][NextAdmin]_vars

\* Authorization: requireRole and requireAnyRole on a request as the authentication
\* middleware leaves it (no req.user, or the id and roles of the token)
AllRoles == {"READ", "WRITE", "ADMIN"}
RoleUsers ==
  {NoUser} \cup {[present |-> TRUE, id |-> id, roles |-> roles, quotaPerMinute |-> 100] :
                   id \in ClientIds, roles \in SUBSET AllRoles}
RequireRoleCall(user, role) ==
  /\ call' = [op |-> "requireRole", at |-> now, arg |-> [user |-> user, role |-> role],
              res |-> RequireRole(user, role)]
  /\ UNCHANGED <<now, ticks, config, store, reqs, jwt, clients>>

RequireAnyRoleCall(user, roles) ==
  /\ call' = [op |-> "requireAnyRole", at |-> now, arg |-> [user |-> user, roles |-> roles],
              res |-> RequireAnyRole(user, roles)]
  /\ UNCHANGED <<now, ticks, config, store, reqs, jwt, clients>>

NextRoles ==
  \/ \E user \in RoleUsers, role \in AllRoles : RequireRoleCall(user, role)
  \/ \E user \in RoleUsers, roles \in SUBSET AllRoles : RequireAnyRoleCall(user, roles)

SpecRoles == InitKeys /\ [][NextRoles]_vars

\* The limiter behind authenticate(), one request at a time, while the sender's client
\* record is administered: client c1 of tier FREE holds an access token issued at time 0
GateToken ==
  [form |-> "jwt", sig |-> "good",
   payload |-> [sub |-> UUIDs[1], roles |-> GetTierConfig("FREE").roles,
                quotaPerMinute |-> GetTierConfig("FREE").quotaPerMinute, iat |-> 0,
                exp |-> ParseExpiry(AccessTokenExpiry), hasExp |-> TRUE]]
InitGate ==
  /\ now = 0
  /\ ticks = 0
  /\ config \in [windowMs : {WindowMs}, maxRequests : Limits, route : {"tiered"}]
  /\ store = <<>>
  /\ \E ip \in IPs :
        reqs = [r \in Req |-> [IdleReq EXCEPT !.auth = Bearer(GateToken),
                                              !.user = Authenticate(Bearer(GateToken), 0).user,
                                              !.ip = ip]]
  /\ jwt = NoCall
  /\ clients = CreateClient(<<>>, "FREE").clients
  /\ call = NoAuthCall

NextGate ==
  \/ \E r \in Req : InFlight = {} /\ Begin(r, FALSE)
  \/ \E r \in Req : CheckReturn(r, FALSE)
  \/ \E r \in Req : IncGetReturn(r, FALSE)
  \/ \E r \in Req : IncSetReturn(r, FALSE)
  \/ \E status \in Statuses : UpdateClientStatusCall(UUIDs[1], status)
  \/ \E q \in QuotaInputs : UpdateClientQuotaCall(UUIDs[1], q)
  \/ Tick

SpecGate == InitGate /\ [][NextGate]_vars

\* The JWT service under expiry settings that parseExpiry accepts: the defaults and a
\* zero duration
ExpiryConfigs == {[value |-> 0, unit |-> "s"], AccessTokenExpiry, RefreshTokenExpiry}
TokenPairPayloadsCall(clientId, accessExpiry, refreshExpiry) ==
  /\ call' = [op |-> "generateTokenPair", at |-> now,
              arg |-> [clientId |-> clientId, accessExpiry |-> accessExpiry,
                       refreshExpiry |-> refreshExpiry],
              res |-> TokenPairPayloads(clientId, {"READ"}, 100, now, accessExpiry, refreshExpiry)]
  /\ UNCHANGED <<now, ticks, config, store, reqs, jwt, clients>>

RefreshedPayloadCall(token, accessExpiry) ==
  /\ VerifyToken(token, now).ok
  /\ call' = [op |-> "refreshAccessToken payload", at |-> now,
              arg |-> [token |-> token, accessExpiry |-> accessExpiry],
              res |-> [access |-> RefreshedPayload(VerifyToken(token, now).payload, now,
                                                   accessExpiry)]]
  /\ UNCHANGED <<now, ticks, config, store, reqs, jwt, clients>>

NextExpiry ==
  \/ \E id \in ClientIds, a \in ExpiryConfigs, r \in ExpiryConfigs :
        TokenPairPayloadsCall(id, a, r)
  \/ \E token \in SignedTokens, a \in ExpiryConfigs : RefreshedPayloadCall(token, a)
  \/ Elapse

SpecExpiry == InitKeys /\ [][NextExpiry]_vars

\* Suspension and the tokens already out: clients are created, suspended and restored,
\* exchange their key and refresh, while tokens signed with private.pem are verified
NextStale ==
  \/ CreateClientCall("FREE")
  \/ \E id \in ClientIds, status \in Statuses : UpdateClientStatusCall(id, status)
  \/ \E id \in ClientIds : DeleteClientCall(id)
  \/ \E apiKey \in PresentedKeys : GenerateTokensForClientCall(apiKey)
  \/ \E token \in SignedTokens : MiddlewareRefreshAccessTokenCall(token)
  \/ \E token \in SignedTokens : VerifyTokenCall(token)
  \/ Elapse

SpecStale == InitKeys /\ [][NextStale]_vars

\* ------------------------------------------------------------ cache calls
ClockStep == 1200   \* ms by which the clock advances between cache calls
CacheKeys == {<<"a">>}
CacheValues == {1, 2}
\* options.ttl in ms; 0 stands for a call without ttl, or with ttl 0
CacheTTLs == {0, 500, 1500, 2000}
Pools == {"p1"}
Pages == {0, InvalidatedPages - 1, InvalidatedPages}

\* cache.set(key, value, {ttl})
CacheSetCall(key, n, ttl, fail) ==
  /\ LET r == CacheSet(store, key, n, ttl, now, fail) IN
       /\ store' = r.store
       /\ call' = [op |-> "set", at |-> now,
                   arg |-> [key |-> key, value |-> n, ttl |-> ttl, fail |-> fail],
                   res |-> [ok |-> r.ok, logged |-> r.logged]]
  /\ UNCHANGED <<now, ticks, config, reqs, jwt, clients>>

\* cache.get(key)
CacheGetCall(key, fail) ==
  /\ call' = [op |-> "get", at |-> now, arg |-> [key |-> key, fail |-> fail],
              res |-> CacheGet(store, key, now, fail)]
  /\ UNCHANGED <<now, ticks, config, store, reqs, jwt, clients>>

\* another program writes a string that is no JSON under the key
ForeignWrite(key) ==
  /\ store' = RedisSetex(store, key, FloorDiv(DefaultTTL, MsPerSec), Garbage, now)
  /\ call' = [op |-> "foreign write", at |-> now, arg |-> [key |-> key], res |-> [none |-> TRUE]]
  /\ UNCHANGED <<now, ticks, config, reqs, jwt, clients>>

\* redisCache.getOrSet(key, factory, ttl)
GetOrSetCall(key, ttl) ==
  /\ LET r == GetOrSet(store, key, ttl, now) IN
       /\ store' = r.store
       /\ call' = [op |-> "getOrSet", at |-> now, arg |-> [key |-> key, ttl |-> ttl],
                   res |-> [threw |-> r.threw, error |-> r.error, value |-> r.value,
                            factoryCalls |-> r.factoryCalls,
                            hit |-> ~CacheGet(store, key, now, FALSE).value.isNull]]
  /\ UNCHANGED <<now, ticks, config, reqs, jwt, clients>>

\* Time passes between cache calls
Pass ==
  /\ ticks < MaxTicks
  /\ now' = now + ClockStep
  /\ ticks' = ticks + 1
  /\ store' = Purge(store, now')
  /\ UNCHANGED <<config, reqs, jwt, authVars>>

NextCache ==
  \/ \E key \in CacheKeys, n \in CacheValues, ttl \in CacheTTLs, fail \in BOOLEAN :
        CacheSetCall(key, n, ttl, fail)
  \/ \E key \in CacheKeys, fail \in BOOLEAN : CacheGetCall(key, fail)
  \/ \E key \in CacheKeys : ForeignWrite(key)
  \/ \E key \in CacheKeys, ttl \in CacheTTLs : GetOrSetCall(key, ttl)
  \/ Pass

SpecCache == InitKeys /\ [][NextCache]_vars

CachePoolCall(poolId, n) ==
  /\ LET r == CachePool(store, poolId, n, now, FALSE) IN
       /\ store' = r.store
       /\ call' = [op |-> "cachePool", at |-> now, arg |-> [poolId |-> poolId, value |-> n],
                   res |-> [ok |-> r.ok]]
  /\ UNCHANGED <<now, ticks, config, reqs, jwt, clients>>

CacheTVLCall(poolId, n) ==
  /\ LET r == CacheTVL(store, poolId, n, now, FALSE) IN
       /\ store' = r.store
       /\ call' = [op |-> "cacheTVL", at |-> now, arg |-> [poolId |-> poolId, value |-> n],
                   res |-> [ok |-> r.ok]]
  /\ UNCHANGED <<now, ticks, config, reqs, jwt, clients>>

CacheSwapsCall(poolId, page, n) ==
  /\ LET r == CacheSwaps(store, poolId, page, n, now, FALSE) IN
       /\ store' = r.store
       /\ call' = [op |-> "cacheSwaps", at |-> now,
                   arg |-> [poolId |-> poolId, page |-> page, value |-> n],
                   res |-> [ok |-> r.ok]]
  /\ UNCHANGED <<now, ticks, config, reqs, jwt, clients>>

GetCachedPoolCall(poolId) ==
  /\ call' = [op |-> "getCachedPool", at |-> now, arg |-> [poolId |-> poolId],
              res |-> GetCachedPool(store, poolId, now, FALSE)]
  /\ UNCHANGED <<now, ticks, config, store, reqs, jwt, clients>>

GetCachedTVLCall(poolId) ==
  /\ call' = [op |-> "getCachedTVL", at |-> now, arg |-> [poolId |-> poolId],
              res |-> GetCachedTVL(store, poolId, now, FALSE)]
  /\ UNCHANGED <<now, ticks, config, store, reqs, jwt, clients>>

GetCachedSwapsCall(poolId, page) ==
  /\ call' = [op |-> "getCachedSwaps", at |-> now, arg |-> [poolId |-> poolId, page |-> page],
              res |-> GetCachedSwaps(store, poolId, page, now, FALSE)]
  /\ UNCHANGED <<now, ticks, config, store, reqs, jwt, clients>>

InvalidatePoolCall(poolId, fail) ==
  /\ LET r == InvalidatePool(store, poolId, now, fail) IN
       /\ store' = r.store
       /\ call' = [op |-> "invalidatePool", at |-> now,
                   arg |-> [poolId |-> poolId, fail |-> fail],
                   res |-> [deleted |-> r.deleted, logged |-> r.logged]]
  /\ UNCHANGED <<now, ticks, config, reqs, jwt, clients>>

\* The pool caches
NextPool ==
  \/ \E p \in Pools, n \in CacheValues : CachePoolCall(p, n)
  \/ \E p \in Pools, n \in CacheValues : CacheTVLCall(p, n)
  \/ \E p \in Pools, page \in Pages, n \in CacheValues : CacheSwapsCall(p, page, n)
  \/ \E p \in Pools : GetCachedPoolCall(p)
  \/ \E p \in Pools : GetCachedTVLCall(p)
  \/ \E p \in Pools, page \in Pages : GetCachedSwapsCall(p, page)
  \/ \E p \in Pools, fail \in BOOLEAN : InvalidatePoolCall(p, fail)

SpecPool == InitKeys /\ [][NextPool]_vars

\* One request at a time on a store that also holds cached pool data, with resetRateLimit
\* and clearAll called in between
InitReset ==
  /\ now = 0
  /\ ticks = 0
  /\ config = [windowMs |-> WindowMs, maxRequests |-> MaxLimit, route |-> "plain"]
  /\ store = <<>>
  /\ \E u \in {v \in Users : v.quotaPerMinute = 0}, ip \in IPs : reqs = [r \in Req |-> [IdleReq EXCEPT !.user = u, !.ip = ip]]
  /\ jwt = NoCall
  /\ clients = <<>>
  /\ call = NoAuthCall

ResetRateLimitCall(r, fail) ==
  /\ LET d == ResetRateLimit(store, reqs[r].user, reqs[r].ip, config.windowMs, now, fail) IN
       /\ store' = d.store
       /\ call' = [op |-> "resetRateLimit", at |-> now,
                   arg |-> [key |-> WindowKey(DefaultKey(reqs[r].user, reqs[r].ip),
                                              WindowStart(now, config.windowMs)),
                            keys |-> {}, fail |-> fail],
                   res |-> [ok |-> d.ok]]
  /\ UNCHANGED <<now, ticks, config, reqs, jwt, clients>>

ClearAllCall(fail) ==
  /\ LET c == ClearAll(store, fail) IN
       /\ store' = c.store
       /\ call' = [op |-> "clearAll", at |-> now,
                   arg |-> [key |-> <<>>, keys |-> DOMAIN store, fail |-> fail],
                   res |-> [ok |-> c.ok]]
  /\ UNCHANGED <<now, ticks, config, reqs, jwt, clients>>

\* cachePool on the shared store
SharedCachePoolCall(poolId, n) ==
  /\ LET w == CachePool(store, poolId, n, now, FALSE) IN
       /\ store' = w.store
       /\ call' = [op |-> "cachePool", at |-> now,
                   arg |-> [key |-> BuildKey(PoolKey(poolId), Prefix), keys |-> {},
                            fail |-> FALSE],
                   res |-> [ok |-> w.ok]]
  /\ UNCHANGED <<now, ticks, config, reqs, jwt, clients>>

NextReset ==
  \/ \E r \in 1..MaxInFlight : InFlight = {} /\ Begin(r, FALSE)
  \/ \E r \in Req : CheckReturn(r, FALSE)
  \/ \E r \in Req : IncGetReturn(r, FALSE)
  \/ \E r \in Req : IncSetReturn(r, FALSE)
  \/ \E fail \in BOOLEAN : InFlight = {} /\ ResetRateLimitCall(1, fail)
  \/ \E fail \in BOOLEAN : InFlight = {} /\ ClearAllCall(fail)
  \/ \E p \in Pools : InFlight = {} /\ SharedCachePoolCall(p, 1)
  \/ Tick

SpecReset == InitReset /\ [][NextReset]_vars

\* ================================================================ claims
Done(r) == reqs[r].pc = "done"
Passed(r) == Done(r) /\ reqs[r].outcome = "passed"
Rejected(r) == Done(r) /\ reqs[r].outcome = "rejected"
Started(r) == reqs[r].pc # "idle"
\* the request has entered incrementCount
Counting(r) == reqs[r].pc \in {"inc_get", "inc_set"} \/ Passed(r)
\* the request computed its window twice and got two different windows
Straddled(r) == Counting(r) /\ reqs[r].incWindowStart # reqs[r].windowStart
\* position of request r among the requests of its key and window, in arrival order
Rank(r) ==
  Cardinality({q \in Req : /\ q <= r
                           /\ Started(q)
                           /\ reqs[q].outcome # "skipped"
                           /\ reqs[q].key = reqs[r].key
                           /\ reqs[q].windowStart = reqs[r].windowStart})
\* requests up to r each ran inside one window
InsideOneWindow(r) == \A q \in Req : q <= r => ~Straddled(q)

\* C1: one client, limit N, requests one after another with a working store, each inside
\* one window: the first N requests of a window are passed on, every later one of that
\* window is answered 429 with code RATE_LIMIT_EXCEEDED, and the first request of the
\* following window is passed on again.
C1_ExactlyLimitAllowed ==
  \A r \in Req :
    (Done(r) /\ InsideOneWindow(r)) =>
      /\ (Rank(r) <= reqs[r].limit) =>
            (reqs[r].outcome = "passed" /\ reqs[r].nextCalls = 1 /\ reqs[r].status = 0)
      /\ (Rank(r) > reqs[r].limit) =>
            (reqs[r].outcome = "rejected" /\ reqs[r].nextCalls = 0 /\ reqs[r].status = 429
               /\ reqs[r].error.code = "RATE_LIMIT_EXCEEDED")

C1_Witness ==
  \E r, s \in Req :
    /\ r < s /\ InsideOneWindow(s)
    /\ Rejected(r) /\ Rank(r) = reqs[r].limit + 1
    /\ \A q \in Req : q < r => Passed(q)
    /\ Passed(s) /\ reqs[s].windowStart > reqs[r].windowStart /\ Rank(s) = 1

\* C2: under any interleaving of concurrent requests of one client in one window, with a
\* working store, the number of requests passed on never exceeds the limit, and once no
\* request is in flight the stored counter equals the number of requests passed on.
AllowedIn(key, w) == {r \in Req : Passed(r) /\ reqs[r].key = key /\ reqs[r].windowStart = w}
StoredCount(key, w) == CountOf(CacheGet(store, WindowKey(key, w), now, FALSE).value)
NoStoreFailure == \A r \in Req : ~reqs[r].storeFailed
C2_NoLostIncrement ==
  \A r \in Req :
    (Started(r) /\ reqs[r].outcome # "skipped" /\ NoStoreFailure
       /\ (\A q \in Req : ~Straddled(q))
       /\ WindowStart(now, config.windowMs) = reqs[r].windowStart) =>
      /\ Cardinality(AllowedIn(reqs[r].key, reqs[r].windowStart)) <= reqs[r].limit
      /\ (InFlight = {}) =>
            StoredCount(reqs[r].key, reqs[r].windowStart)
              = Cardinality(AllowedIn(reqs[r].key, reqs[r].windowStart))

\* C3: the k-th request passed on in a window (sequential, inside one window) reports
\* remaining = N - k, never negative, 0 exactly on the N-th; a rejected request reports
\* remaining = 0.
C3_Remaining ==
  \A r \in Req :
    (Done(r) /\ InsideOneWindow(r)) =>
      /\ Passed(r) =>
            /\ reqs[r].headers.remaining = reqs[r].limit - Rank(r)
            /\ reqs[r].headers.remaining = reqs[r].limit - reqs[r].currentCount - 1
            /\ reqs[r].headers.remaining >= 0
            /\ (reqs[r].headers.remaining = 0) <=> (Rank(r) = reqs[r].limit)
      /\ Rejected(r) => reqs[r].headers.remaining = 0

C3_Witness ==
  \E r, s \in Req :
    /\ InsideOneWindow(s)
    /\ Passed(r) /\ Rank(r) = 1 /\ reqs[r].limit = MaxLimit
    /\ reqs[r].headers.remaining = MaxLimit - 1
    /\ Passed(s) /\ Rank(s) = MaxLimit /\ reqs[s].windowStart = reqs[r].windowStart
    /\ reqs[s].headers.remaining = 0

\* C4: every 429 carries a retry delay retryAfter > 0 and at most the window size in
\* seconds, the same value being sent as Retry-After, also when the clock advances between
\* the computation of the window start and that of retryAfter.
C4_RetryAfterPositive ==
  \A r \in Req :
    Rejected(r) =>
      /\ reqs[r].error.retryAfter > 0
      /\ reqs[r].error.retryAfter * MsPerSec <= config.windowMs
      /\ reqs[r].hasRetryHeader /\ reqs[r].retryHeader = reqs[r].error.retryAfter

\* C5: a request whose quota check met a store failure (read or write) is passed on
\* (next() exactly once), is not answered 429 or 5xx, and the failure is logged.
C5_FailOpen ==
  \A r \in Req :
    reqs[r].storeFailed =>
      /\ reqs[r].logged
      /\ reqs[r].status = 0
      /\ reqs[r].outcome # "rejected"
      /\ Done(r) => (reqs[r].outcome = "passed" /\ reqs[r].nextCalls = 1)

\* a request passed on after a failed read although its window's counter is used up
C5_Witness ==
  \E r \in Req :
    /\ Passed(r) /\ reqs[r].storeFailed /\ reqs[r].logged /\ reqs[r].nextCalls = 1
    /\ \E q \in Req : q < r /\ Passed(q) /\ reqs[q].key = reqs[r].key
                       /\ reqs[q].windowStart = reqs[r].windowStart
                       /\ Rank(r) > reqs[r].limit

\* C6: every request the rate limiter has handled (passed on, rejected, or passed on after
\* a store failure) has the headers X-RateLimit-Limit / -Remaining / -Reset set.
C6_HeadersOnEveryRequest ==
  \A r \in Req : Done(r) => reqs[r].headers.set

\* C7: in the server's pipeline a request with a valid access token of quota claim Q is
\* checked against the limit Q and counted under its client id, not under the default
\* limit and not under the caller's IP address.
ValidBearer(r) ==
  reqs[r].auth.present /\ VerifyToken(ExtractToken(reqs[r].auth), now).ok
C7_TokenQuotaApplied ==
  \A r \in Req :
    (Started(r) /\ ValidBearer(r)) =>
      /\ reqs[r].limit = reqs[r].auth.token.payload.quotaPerMinute
      /\ reqs[r].key \in {TierKey(CreateGraphQLContext(reqs[r].auth, now).user),
                          DefaultKey(CreateGraphQLContext(reqs[r].auth, now).user, reqs[r].ip)}

\* C8: in the server's pipeline a request without a bearer token, or with a token that
\* fails verification, is ended with a 401 before any quota counter is read or written and
\* before the resolver runs.
FailsVerification(r) ==
  \/ ExtractToken(reqs[r].auth) = NoToken
  \/ ExtractToken(reqs[r].auth).form # "jwt"
  \/ ExtractToken(reqs[r].auth).sig # "good"
  \/ (reqs[r].ctx.made /\ ~reqs[r].ctx.isAuthenticated)
C8_UnauthenticatedStopsFirst ==
  \A r \in Req :
    (Started(r) /\ FailsVerification(r)) =>
      /\ ~reqs[r].headers.set   \* no counter was read
      /\ ~Counting(r)           \* none is being incremented
      /\ ~reqs[r].resolved
      /\ Done(r) => reqs[r].status = 401

\* C9: for every client identity, generateTokenPair succeeds and verifyToken of the access
\* token, at once, returns the identity's id, roles and quota.
C9_IssueThenVerify ==
  jwt.op = "generateTokenPair" =>
    /\ jwt.pair.ok
    /\ LET v == VerifyToken(jwt.pair.accessToken, jwt.at) IN
         /\ v.ok
         /\ v.payload.sub = jwt.client.id
         /\ v.payload.roles = jwt.client.roles
         /\ v.payload.quotaPerMinute = jwt.client.quotaPerMinute

\* C10 as stated: every token that carries an expiry, verified later than that expiry,
\* gives 'Token expired'.
C10_AnyTokenExpired ==
  (jwt.op = "verifyToken" /\ jwt.token.form = "jwt"
     /\ jwt.at > jwt.token.payload.exp * MsPerSec) =>
    (~jwt.verdict.ok /\ jwt.verdict.message = "Token expired")

\* C10, amended: every well-formed token whose signature verifies, presented later than
\* its expiry, gives 'Token expired', never 'Invalid token' and never success.
C10_SignedTokenExpired ==
  (jwt.op = "verifyToken" /\ jwt.token.form = "jwt" /\ jwt.token.sig = "good"
     /\ jwt.at > jwt.token.payload.exp * MsPerSec) =>
    (~jwt.verdict.ok /\ jwt.verdict.message = "Token expired")

C10_Witness ==
  /\ jwt.op = "verifyToken" /\ jwt.token.form = "jwt" /\ jwt.token.sig = "good"
  /\ jwt.at > jwt.token.payload.exp * MsPerSec
  /\ jwt.verdict.message = "Token expired"

\* ---------------------------------------------------------------- C11 .. C20
\* the case a presented token falls in at clock t, as the claims name them
TokenCase(token, t) ==
  IF token.form # "jwt" THEN "malformed"
  ELSE IF token.sig # "good" THEN "invalid-signature"
  ELSE IF t > token.payload.exp * MsPerSec THEN "expired"
  ELSE "valid"

\* C11: verifyToken fails for an expired, a malformed and a badly signed token, and the
\* errors of two different cases are never the same.
C11_DistinctErrorKinds ==
  (jwt.op = "verifyToken" /\ TokenCase(jwt.token, jwt.at) # "valid") =>
    /\ ~jwt.verdict.ok
    /\ \A other \in Tokens :
         TokenCase(other, jwt.at) \notin {"valid", TokenCase(jwt.token, jwt.at)} =>
           VerifyToken(other, jwt.at).message # jwt.verdict.message

\* C12: authenticate() answers a request whose token is expired with 401 and the code
\* TOKEN_EXPIRED, and one whose token is malformed or badly signed with 401 and the code
\* INVALID_TOKEN.
C12_ExpiredCodeDistinct ==
  (call.op = "authenticate" /\ ExtractToken(call.arg.header) # NoToken) =>
    LET case == TokenCase(ExtractToken(call.arg.header), call.at) IN
      /\ case = "expired" => (call.res.status = 401 /\ call.res.error.code = "TOKEN_EXPIRED")
      /\ case \in {"malformed", "invalid-signature"} =>
           (call.res.status = 401 /\ call.res.error.code = "INVALID_TOKEN")

\* C13: JWTService.refreshAccessToken of a valid refresh token returns an access token
\* with the refresh token's sub, roles and quotaPerMinute, iat = now and
\* exp = now + access lifetime > now.
C13_RefreshKeepsClaims ==
  (call.op = "refreshAccessToken" /\ VerifyToken(call.arg.token, call.at).ok) =>
    /\ call.res.ok
    /\ call.res.token.payload.sub = call.arg.token.payload.sub
    /\ call.res.token.payload.roles = call.arg.token.payload.roles
    /\ call.res.token.payload.quotaPerMinute = call.arg.token.payload.quotaPerMinute
    /\ call.res.token.payload.iat = Seconds(call.at)
    /\ call.res.token.payload.exp = Seconds(call.at) + ParseExpiry(AccessTokenExpiry)
    /\ call.res.token.payload.exp * MsPerSec > call.at

\* C14: the refresh endpoint accepts a properly signed refresh token at every time before
\* its expiry, whatever was refreshed before, and hands the same refresh token back; after
\* its expiry it rejects it.
C14_RefreshTokenNotConsumed ==
  (call.op = "middleware.refreshAccessToken" /\ call.arg.token.form = "jwt"
     /\ call.arg.token.sig = "good") =>
    /\ call.at < call.arg.token.payload.exp * MsPerSec =>
         (call.res.ok /\ call.res.refreshToken = call.arg.token)
    /\ call.at > call.arg.token.payload.exp * MsPerSec => ~call.res.ok

\* a token with the payload generateTokenPair gives its refresh token
IsRefreshToken(token) ==
  /\ token.form = "jwt" /\ token.sig = "good"
  /\ token.payload.exp = token.payload.iat + ParseExpiry(RefreshTokenExpiry)

\* C15: a request that presents a refresh token as its bearer token is not authenticated
\* by authenticate() (401, no req.user, no next()) nor by createGraphQLContext.
C15_RefreshTokenNoBearer ==
  (call.op = "authenticate" /\ IsRefreshToken(ExtractToken(call.arg.header))) =>
    /\ call.res.status = 401
    /\ ~call.res.user.present
    /\ call.res.nextCalls = 0
    /\ ~CreateGraphQLContext(call.arg.header, call.at).isAuthenticated

\* the last call of the API key service suspended the client
Suspending(clientId) ==
  \/ /\ call.op = "updateClientStatus" /\ call.res.ok
     /\ call.arg.clientId = clientId /\ call.arg.status = "SUSPENDED"
  \/ call.op = "deleteClient" /\ call.res.ok /\ call.arg.clientId = clientId

Owners(apiKey) == {i \in DOMAIN clients : clients[i].apiKey = HashAPIKey(apiKey)}

\* C17: authenticateClient returns a client exactly when the key is the credential of an
\* ACTIVE client, and then that client; for an unknown key and for the key of a SUSPENDED
\* client it returns null; once updateClientStatus(id, ACTIVE) has returned true the
\* client's credential authenticates.
C17_OnlyActiveAuthenticates ==
  /\ call.op = "authenticateClient" =>
       /\ call.res.found <=> (\E i \in Owners(call.arg.apiKey) : clients[i].status = "ACTIVE")
       /\ call.res.found =>
            /\ call.res.client.apiKey = HashAPIKey(call.arg.apiKey)
            /\ call.res.client.status = "ACTIVE"
            /\ \E i \in Owners(call.arg.apiKey) : clients[i] = call.res.client
       /\ ~call.res.found => call.res.client = NoClientApp
  /\ (call.op = "updateClientStatus" /\ call.res.ok /\ call.arg.status = "ACTIVE") =>
       \A i \in DOMAIN clients :
         clients[i].id = call.arg.clientId =>
           LET again == AuthenticateClient(clients, APIKeys[i], now) IN
             again.found /\ again.client.id = call.arg.clientId

\* the correct credential of a suspended client was presented and gave null
C17_Witness ==
  /\ call.op = "authenticateClient" /\ ~call.res.found
  /\ \E i \in Owners(call.arg.apiKey) : clients[i].status = "SUSPENDED"

\* C18: generateTokensForClient with an unknown key and with the key of a SUSPENDED client
\* fail with one and the same error ('Invalid API key', INVALID_API_KEY) and no token.
C18_SameErrorUnknownOrSuspended ==
  (/\ call.op = "generateTokensForClient"
   /\ \A i \in Owners(call.arg.apiKey) : clients[i].status = "SUSPENDED") =>
    /\ ~call.res.ok
    /\ call.res.error = [message |-> "Invalid API key", code |-> "INVALID_API_KEY"]
    /\ call.res.pair = NoPair

C18_Witness ==
  /\ call.op = "generateTokensForClient"
  /\ Owners(call.arg.apiKey) # {}
  /\ \A i \in Owners(call.arg.apiKey) : clients[i].status = "SUSPENDED"
  /\ call.res.error.code = "INVALID_API_KEY"

\* C19: createClient gives FREE 100 / {READ}, STANDARD 1000 / {READ}, ENTERPRISE
\* 10000 / {READ, WRITE, ADMIN}, stores the client as ACTIVE, and for any other tier
\* fails with an invalid-tier error and leaves the stored clients as they were.
C19_TierTable ==
  /\ [](call.op = "createClient" =>
          IF call.arg.tier \in {"FREE", "STANDARD", "ENTERPRISE"}
          THEN /\ call.res.ok
               /\ call.res.client.tier = call.arg.tier
               /\ call.res.client.quotaPerMinute =
                    (CASE call.arg.tier = "FREE" -> 100
                       [] call.arg.tier = "STANDARD" -> 1000
                       [] call.arg.tier = "ENTERPRISE" -> 10000)
               /\ call.res.client.roles =
                    (IF call.arg.tier = "ENTERPRISE" THEN {"READ", "WRITE", "ADMIN"} ELSE {"READ"})
               /\ call.res.client.status = "ACTIVE"
               /\ Len(clients) > 0 /\ clients[Len(clients)] = call.res.client
          ELSE ~call.res.ok /\ call.res.error = "Invalid tier")
  /\ [][(call'.op = "createClient" /\ ~call'.res.ok) => clients' = clients]_vars

\* an invalid tier was refused while a client was stored
C19_Witness ==
  /\ call.op = "createClient" /\ call.arg.tier \notin Tiers /\ ~call.res.ok
  /\ Len(clients) > 0 /\ clients[1].tier = "STANDARD"

\* C20: no stored client record holds the plaintext key, and no result of getClient,
\* listClients or authenticateClient contains it.
C20_PlaintextNeverStored ==
  /\ \A i \in DOMAIN clients : ~clients[i].hasPlaintext
  /\ (call.op = "getClient" /\ call.res.found) => ~call.res.client.hasPlaintext
  /\ call.op = "listClients" => \A i \in DOMAIN call.res.list : ~call.res.list[i].hasPlaintext
  /\ (call.op = "authenticateClient" /\ call.res.found) => ~call.res.client.hasPlaintext

\* ---------------------------------------------------------------- C21 .. C30
\* the last cache call was a set that found the store working
LastSet == call.op = "set" /\ ~call.arg.fail

\* C21: after set(key, value, ttl), with no later write to the key, a get before the
\* entry's expiry (the time of the set + ttl) returns the value and a get after it returns
\* null.
C21_ReadBackUntilExpiry ==
  (LastSet /\ call.arg.ttl > 0) =>
    LET got == CacheGet(store, call.arg.key, now, FALSE).value IN
      /\ now < call.at + call.arg.ttl => got = Value(call.arg.value)
      /\ now > call.at + call.arg.ttl => got = Null

\* C22: a write is stored with exactly the TTL its caller chose, and never with a default
\* the caller did not pass.
C22_NoDefaultTTL ==
  (LastSet /\ call.res.ok /\ now = call.at) =>
    /\ call.arg.key \in DOMAIN store
    /\ store[call.arg.key].exp - call.at = call.arg.ttl
    /\ call.arg.ttl # DefaultTTL => store[call.arg.key].exp - call.at # DefaultTTL

C24_GetOrSet ==
  call.op = "getOrSet" =>
    /\ ~call.res.threw
    /\ call.res.hit => (call.res.factoryCalls = 0 /\ ~call.res.value.isNull)
    /\ ~call.res.hit =>
         (call.res.factoryCalls = 1 /\ ~call.res.value.isNull
            /\ (now = call.at => call.arg.key \in DOMAIN store))

ClientOf(r) == reqs[r].auth.token.payload.sub
PassedOf(id, w) ==
  {q \in Req : Passed(q) /\ ClientOf(q) = id /\ reqs[q].incWindowStart = w}
C26_ClientsIsolated ==
  \A r \in Req :
    /\ \A q \in Req :
         (Started(r) /\ Started(q) /\ ClientOf(q) # ClientOf(r)) => reqs[q].key # reqs[r].key
    /\ Rejected(r) =>
         Cardinality(PassedOf(ClientOf(r), reqs[r].windowStart)) >= reqs[r].limit

\* C27: the window of a request is [floor(now / windowMs) * windowMs, that + windowMs),
\* now being the clock when the window is computed: a request arriving exactly on a
\* boundary is checked against the counter of the window that starts there and counted in
\* it, and the resetTime reported is greater than the time at which the window was computed.
InWindow(t, w) == w % config.windowMs = 0 /\ w <= t /\ t < w + config.windowMs
CounterAfter(key, w) == CountOf(CacheGet(store', WindowKey(key, w), now', FALSE).value)
C28_CounterMonotone ==
  [][\A r \in Req :
       (Started(r) /\ NoStoreFailure' /\ now' = now
          /\ InWindow(now, reqs[r].windowStart) /\ ~Straddled(r)') =>
         /\ CounterAfter(reqs[r].key, reqs[r].windowStart)
              >= StoredCount(reqs[r].key, reqs[r].windowStart)
         /\ (reqs[r].pc = "inc_set" /\ Passed(r)') =>
              CounterAfter(reqs[r].key, reqs[r].windowStart)
                = StoredCount(reqs[r].key, reqs[r].windowStart) + 1
         /\ (reqs[r].pc = "check" /\ Rejected(r)') => store' = store
    ]_vars

\* C29: a request that is allowed increments the counter of the window against which it
\* was checked.
C29_SameWindowCheckedAndCounted ==
  \A r \in Req : Counting(r) => reqs[r].incWindowStart = reqs[r].windowStart

\* C30: while the clock is inside window W, the counter written in W by a request passed
\* on is readable; and no counter outlives the time of its last write by more than
\* windowMs.
C30_CounterLivesItsWindow ==
  /\ \A r \in Req :
       (Passed(r) /\ ~reqs[r].storeFailed /\ InWindow(now, reqs[r].incWindowStart)) =>
         StoredCount(reqs[r].key, reqs[r].incWindowStart) >= 1
  /\ \A k \in DOMAIN store : store[k].exp <= now + config.windowMs

\* ---------------------------------------------------------------- C31 .. C39
\* the stored record of the client with this id
StoredClient(cs, clientId) == cs[First(Lookup(cs, clientId))]
\* calls of the API key service that do not authenticate anybody
NoTimestampCall(c) ==
  \/ c.op = "authenticateClient" /\ ~c.res.found
  \/ c.op \in {"updateClientStatus", "updateClientQuota", "getClient", "listClients"}

\* C31: a successful authenticateClient sets the client's lastUsedAt to the time of the
\* call; a failed authenticateClient, updateClientStatus, updateClientQuota, getClient and
\* listClients leave every client's lastUsedAt as it was.
C31_LastUsedAt ==
  /\ []((call.op = "authenticateClient" /\ call.res.found) =>
          /\ StoredClient(clients, call.res.client.id).hasLastUsedAt
          /\ StoredClient(clients, call.res.client.id).lastUsedAt = call.at)
  /\ [][(call' # call /\ NoTimestampCall(call')) =>
          /\ DOMAIN clients' = DOMAIN clients
          /\ \A i \in DOMAIN clients :
               /\ clients'[i].hasLastUsedAt = clients[i].hasLastUsedAt
               /\ clients'[i].lastUsedAt = clients[i].lastUsedAt]_vars

\* a client authenticated after time had passed, the other client never did
C31_Witness ==
  /\ call.op = "authenticateClient" /\ call.res.found /\ call.at > 0
  /\ StoredClient(clients, call.res.client.id).lastUsedAt = call.at
  /\ \E i \in DOMAIN clients : ~clients[i].hasLastUsedAt

\* C32: every stored client's quotaPerMinute is the quota of its tier and its roles
\* contain READ.
C32_QuotaMatchesTier ==
  \A i \in DOMAIN clients :
    /\ clients[i].quotaPerMinute = GetTierConfig(clients[i].tier).quotaPerMinute
    /\ "READ" \in clients[i].roles

\* C36: the refresh endpoint answers an expired, a malformed and a badly signed refresh
\* token with an authentication error of code INVALID_REFRESH_TOKEN and no access token;
\* the JWT service's refreshAccessToken fails for them without a token.
C36_BadRefreshTokenRejected ==
  /\ (call.op = "middleware.refreshAccessToken"
        /\ TokenCase(call.arg.token, call.at) # "valid") =>
       /\ ~call.res.ok
       /\ call.res.error.code = "INVALID_REFRESH_TOKEN"
       /\ call.res.accessToken = NoToken
  /\ (call.op = "refreshAccessToken" /\ TokenCase(call.arg.token, call.at) # "valid") =>
       (~call.res.ok /\ call.res.token = NoToken)

\* a refresh token presented after its expiry was refused
C36_Witness ==
  /\ call.op = "middleware.refreshAccessToken"
  /\ TokenCase(call.arg.token, call.at) = "expired"
  /\ call.res.error = AuthenticationError("Token expired", "INVALID_REFRESH_TOKEN")
  /\ call.res.accessToken = NoToken

\* C37: requireRole(r) calls next() exactly when the request has a user whose roles
\* contain r, answers 401 UNAUTHENTICATED without a user and 403 INSUFFICIENT_PERMISSIONS
\* when the role is missing; requireAnyRole(rs) calls next() exactly when the user holds a
\* role of rs; each call ends in exactly one of next() and a response.
C37_RoleDecision ==
  /\ call.op = "requireRole" =>
       LET held == call.arg.user.present /\ call.arg.role \in call.arg.user.roles IN
         /\ call.res.nextCalls = (IF held THEN 1 ELSE 0)
         /\ ~call.arg.user.present => (call.res.status = 401 /\ call.res.error.code = "UNAUTHENTICATED")
         /\ (call.arg.user.present /\ ~held) =>
              (call.res.status = 403 /\ call.res.error.code = "INSUFFICIENT_PERMISSIONS")
         /\ call.res.nextCalls + call.res.responses = 1
  /\ call.op = "requireAnyRole" =>
       LET held == call.arg.user.present /\ call.arg.roles \cap call.arg.user.roles # {} IN
         /\ call.res.nextCalls = (IF held THEN 1 ELSE 0)
         /\ ~call.arg.user.present => (call.res.status = 401 /\ call.res.error.code = "UNAUTHENTICATED")
         /\ (call.arg.user.present /\ ~held) =>
              (call.res.status = 403 /\ call.res.error.code = "INSUFFICIENT_PERMISSIONS")
         /\ call.res.nextCalls + call.res.responses = 1

\* a user with READ alone was refused ADMIN
C37_Witness ==
  /\ call.op = "requireRole" /\ call.arg.role = "ADMIN"
  /\ call.arg.user.present /\ call.arg.user.roles = {"READ"}
  /\ call.res.status = 403 /\ call.res.nextCalls = 0 /\ call.res.responses = 1

\* C38: under createTieredRateLimit a request with a user of positive quota is limited by
\* that quota under the key rate_limit:tier:<id>; a request without a user, or with a user
\* of quota 0, is limited by the configured maxRequests.
C38_TieredLimit ==
  \A r \in Req :
    (config.route = "tiered" /\ Started(r)) =>
      /\ (reqs[r].user.present /\ reqs[r].user.quotaPerMinute > 0) =>
           /\ reqs[r].limit = reqs[r].user.quotaPerMinute
           /\ reqs[r].key = <<"rate_limit", "tier", reqs[r].user.id>>
      /\ ~reqs[r].user.present =>
           (reqs[r].limit = config.maxRequests /\ reqs[r].key = <<"rate_limit", reqs[r].ip>>)
      /\ (reqs[r].user.present /\ reqs[r].user.quotaPerMinute = 0) =>
           reqs[r].limit = config.maxRequests
      /\ reqs[r].headers.set => reqs[r].headers.limit = reqs[r].limit

\* a user of quota 0 was passed on once and then rejected under the default limit 1
C38_Witness ==
  \E r \in Req :
    /\ config.route = "tiered" /\ config.maxRequests = 1
    /\ reqs[r].user.present /\ reqs[r].user.quotaPerMinute = 0
    /\ Rejected(r) /\ reqs[r].headers.limit = 1
    /\ \E q \in Req : q < r /\ Passed(q) /\ reqs[q].windowStart = reqs[r].windowStart

\* C33: a request that enters the limiter while its client is SUSPENDED is checked
\* against the limit 0.
Suspended(clientId) ==
  Lookup(clients, clientId) # {} /\ StoredClient(clients, clientId).status = "SUSPENDED"
C33_SuspendedQuotaZero ==
  [][\A r \in Req :
       (reqs[r].pc = "idle" /\ reqs'[r].pc = "check" /\ Suspended(reqs[r].user.id)) =>
         reqs'[r].limit = 0]_vars

\* C34: after updateClientQuota(id, q) in window W, the client's requests of W are checked
\* against the quota it had before and its requests of every later window against q.
C34_QuotaNextWindow ==
  (call.op = "updateClientQuota" /\ call.res.ok) =>
    \A r \in Req :
      (Started(r) /\ reqs[r].user.id = call.arg.clientId) =>
        /\ reqs[r].windowStart > WindowStart(call.at, config.windowMs) =>
             reqs[r].limit = call.arg.quotaPerMinute
        /\ (reqs[r].windowStart = WindowStart(call.at, config.windowMs)
              /\ call.res.old = GetTierConfig(StoredClient(clients, call.arg.clientId).tier).quotaPerMinute) =>
             reqs[r].limit = call.res.old

====
